---- MODULE Spec2Model ----
(***************************************************************************)
(* Model of checkpoint-to-fortigate.py: the conversion of Checkpoint       *)
(* objects to FortiGate CLI blocks, the re-parsing of a FortiGate script   *)
(* into the index of existing objects, and the pipeline of main().         *)
(*                                                                         *)
(* Text is a sequence of atoms.  An atom is a string that the program's    *)
(* regular expressions never split: a keyword, a name, an address, a run   *)
(* of white space, the double quote.  The regular expressions are modelled *)
(* on atoms exactly as they act on the characters of such a text.          *)
(***************************************************************************)
EXTENDS Integers, Sequences, FiniteSets, TLC

(***************************************************************************)
(* Atoms                                                                   *)
(***************************************************************************)
SP == " "
NL == "\n"
IND1 == "    "
IND2 == "        "
Q == "\""
SLASH == "/"

\* \s
WS == {SP, NL, IND1, IND2}

\* the names and the addresses the inputs below use
Names == {"A", "B", "G"}
Addrs == {"10.0.0.1", "10.0.0.2", "10.1.0.0"}

\* [0-9]+
DigitAtoms == {"0", "24", "32", "80", "53"}
\* [0-9.]+
NumDotAtoms == Addrs \cup DigitAtoms
\* \w+
WordAtoms == {"config", "firewall", "address", "addrgrp", "service", "custom",
              "edit", "next", "end", "set", "type", "ipmask", "iprange",
              "fqdn", "subnet", "member", "comment", "protocol", "any",
              "c1"} \cup Names \cup DigitAtoms

(***************************************************************************)
(* Bounds of the model                                                     *)
(***************************************************************************)
\* the most objects in the input of a whole run
MaxObjs == 3
\* the most objects in the input of a single conversion
MaxConvObjs == 1
\* the most sections in the existing configuration given to the loader
MaxSections == 2
\* the most runs of a round trip
MaxRuns == 2

(***************************************************************************)
(* Helpers on sequences and dictionaries                                   *)
(***************************************************************************)
\* ''.join(atoms)
RECURSIVE Join(_)
Join(s) == IF s = <<>> THEN "" ELSE Head(s) \o Join(Tail(s))

\* the end of the longest run of atoms of class S that starts at i (i - 1 when empty)
RECURSIVE RunEnd(_, _, _)
RunEnd(t, i, S) ==
    IF i <= Len(t) /\ t[i] \in S THEN RunEnd(t, i + 1, S) ELSE i - 1

\* the end of the longest run of atoms outside class S that starts at i
RECURSIVE RunEndNot(_, _, _)
RunEndNot(t, i, S) ==
    IF i <= Len(t) /\ t[i] \notin S THEN RunEndNot(t, i + 1, S) ELSE i - 1

\* the least index >= i of t that holds atom a, 0 when there is none
RECURSIVE IndexFrom(_, _, _)
IndexFrom(t, i, a) ==
    IF i > Len(t) THEN 0
    ELSE IF t[i] = a THEN i ELSE IndexFrom(t, i + 1, a)

\* str.strip()
RECURSIVE Strip(_)
Strip(t) ==
    IF t = <<>> THEN t
    ELSE IF Head(t) \in WS THEN Strip(Tail(t))
    ELSE IF t[Len(t)] \in WS THEN Strip(SubSeq(t, 1, Len(t) - 1))
    ELSE t

\* a dict with no key
EmptyDict == [k \in {} |-> 0]

\* d[k] = v
DictSet(d, k, v) ==
    [x \in DOMAIN d \cup {k} |-> IF x = k THEN v ELSE d[x]]

(***************************************************************************)
(* load_existing_fortigate_config                                          *)
(***************************************************************************)
\* set\s+<key>\s+ matched at i: the index after it, 0 when it does not match
SetKeyAt(t, i, key) ==
    IF i <= Len(t) /\ t[i] = "set"
    THEN LET a == RunEnd(t, i + 1, WS)
         IN IF a >= i + 1 /\ a + 1 <= Len(t) /\ t[a + 1] = key
            THEN LET b == RunEnd(t, a + 2, WS)
                 IN IF b >= a + 2 THEN b + 1 ELSE 0
            ELSE 0
    ELSE 0

\* re.search(r'set\s+<key>\s+(<S>+)', t) from i: the group, <<>> when no match
RECURSIVE SearchSetRun(_, _, _, _)
SearchSetRun(t, i, key, S) ==
    IF i > Len(t) THEN <<>>
    ELSE LET v == SetKeyAt(t, i, key)
         IN IF v # 0 /\ RunEnd(t, v, S) >= v
            THEN <<Join(SubSeq(t, v, RunEnd(t, v, S)))>>
            ELSE SearchSetRun(t, i + 1, key, S)

\* re.search(r'set\s+subnet\s+([0-9.]+/[0-9]+)', t) from i
RECURSIVE SearchSubnet(_, _)
SearchSubnet(t, i) ==
    IF i > Len(t) THEN <<>>
    ELSE LET v == SetKeyAt(t, i, "subnet")
             a == RunEnd(t, v, NumDotAtoms)
             b == RunEnd(t, a + 2, DigitAtoms)
         IN IF v # 0 /\ a >= v /\ a + 1 <= Len(t) /\ t[a + 1] = SLASH /\ b >= a + 2
            THEN <<Join(SubSeq(t, v, b))>>
            ELSE SearchSubnet(t, i + 1)

\* a descriptor that falls back to "unknown" with no fact as soon as an address
\* line of the section's kind does not match
SectionDescriptorAllOrNothing(object_details) ==
    LET type_match == SearchSetRun(object_details, 1, "type", WordAtoms)
        obj_type == IF type_match # <<>> THEN type_match[1] ELSE "unknown"
        subnet_match == SearchSubnet(object_details, 1)
        start_ip_match == SearchSetRun(object_details, 1, "start-ip", NumDotAtoms)
        end_ip_match == SearchSetRun(object_details, 1, "end-ip", NumDotAtoms)
    IN IF obj_type = "ipmask" /\ subnet_match # <<>>
       THEN [type |-> obj_type, ip_info |-> [subnet |-> subnet_match[1]]]
       ELSE IF obj_type = "iprange" /\ start_ip_match # <<>> /\ end_ip_match # <<>>
       THEN [type |-> obj_type,
             ip_info |-> ("start-ip" :> start_ip_match[1]) @@ ("end-ip" :> end_ip_match[1])]
       ELSE IF obj_type \in {"ipmask", "iprange"}
       THEN [type |-> "unknown", ip_info |-> EmptyDict]
       ELSE [type |-> obj_type, ip_info |-> EmptyDict]

\* lines 41-62: the descriptor of one section body
SectionDescriptor(object_details) ==
    LET type_match == SearchSetRun(object_details, 1, "type", WordAtoms)
        obj_type == IF type_match # <<>> THEN type_match[1] ELSE "unknown"
        subnet_match == SearchSubnet(object_details, 1)
        start_ip_match == SearchSetRun(object_details, 1, "start-ip", NumDotAtoms)
        end_ip_match == SearchSetRun(object_details, 1, "end-ip", NumDotAtoms)
        keys == IF obj_type = "ipmask"
                THEN IF subnet_match # <<>> THEN {"subnet"} ELSE {}
                ELSE IF obj_type = "iprange"
                THEN (IF start_ip_match # <<>> THEN {"start-ip"} ELSE {})
                     \cup (IF end_ip_match # <<>> THEN {"end-ip"} ELSE {})
                ELSE {}
        ip_info == [k \in keys |->
                      IF k = "subnet" THEN subnet_match[1]
                      ELSE IF k = "start-ip" THEN start_ip_match[1]
                      ELSE end_ip_match[1]]
    IN [type |-> obj_type, ip_info |-> ip_info]

\* edit\s+"([^"]+)"(.*?)next matched at i: <<name, details, index after next>>,
\* <<>> when it does not match at i
EditMatchAt(t, i) ==
    IF i <= Len(t) /\ t[i] = "edit"
    THEN LET a == RunEnd(t, i + 1, WS)
         IN IF a >= i + 1 /\ a + 1 <= Len(t) /\ t[a + 1] = Q
            THEN LET b == RunEndNot(t, a + 2, {Q})
                 IN IF b >= a + 2 /\ b + 1 <= Len(t)
                    THEN LET n == IndexFrom(t, b + 2, "next")
                         IN IF n # 0
                            THEN <<Join(SubSeq(t, a + 2, b)),
                                   SubSeq(t, b + 2, n - 1), n + 1>>
                            ELSE <<>>
                    ELSE <<>>
            ELSE <<>>
    ELSE <<>>

\* re.findall(pattern, config_content, re.DOTALL) from i: the matches, in order
RECURSIVE FindAll(_, _)
FindAll(t, i) ==
    IF i > Len(t) THEN <<>>
    ELSE LET m == EditMatchAt(t, i)
         IN IF m # <<>> THEN <<m>> \o FindAll(t, m[3])
            ELSE FindAll(t, i + 1)

\* lines 37-62: the loop over the matches, a later section of a name
\* overwriting an earlier one
RECURSIVE LoadMatches(_, _)
LoadMatches(matches, existing) ==
    IF matches = <<>> THEN existing
    ELSE LoadMatches(Tail(matches),
                     DictSet(existing, Head(matches)[1],
                             SectionDescriptor(Strip(Head(matches)[2]))))

\* the file is a sequence of atoms, or absent (FileNotFoundError: the empty dict)
NoFile == <<"<no file>">>

load_existing_fortigate_config(file) ==
    IF file = NoFile THEN EmptyDict
    ELSE LoadMatches(FindAll(file, 1), EmptyDict)

(***************************************************************************)
(* Checkpoint objects: a dict is a function on the keys it holds.  A key   *)
(* that is absent and a key that holds null both read as None with .get.   *)
(***************************************************************************)
\* `not obj.get(k)` fails: the key is there and holds a non-empty string
Truthy(obj, k) == k \in DOMAIN obj /\ obj[k] # ""

\* `not obj.get('members', [])` fails: the key is there and holds a non-empty list
TruthyList(obj, k) == k \in DOMAIN obj /\ obj[k] # <<>>

\* the (cmd, is_duplicate) pairs the converters return; cmd None is <<>>
NotConvertible == [cmd |-> <<>>, is_duplicate |-> FALSE]
Duplicate == [cmd |-> <<>>, is_duplicate |-> TRUE]
Converted(cmd) == [cmd |-> cmd, is_duplicate |-> FALSE]

\* f"        set comment \"{comment}\"\n" when the comment is truthy
CommentLine(obj) ==
    IF Truthy(obj, "comments")
    THEN <<IND2, "set", SP, "comment", SP, Q, obj["comments"], Q, NL>>
    ELSE <<>>

\* f"    edit \"{name}\"\n"
EditLine(name) == <<IND1, "edit", SP, Q, name, Q, NL>>

\* f"    next\nend"
Closer == <<IND1, "next", NL, "end">>

\* a host that takes any existing entry of its name for a duplicate
convert_host_object_name_only(obj, existing_objects) ==
    IF ~Truthy(obj, "name") \/ ~Truthy(obj, "ipv4-address") THEN NotConvertible
    ELSE IF obj["name"] \in DOMAIN existing_objects THEN Duplicate
    ELSE Converted(<<"config", SP, "firewall", SP, "address", NL>>
                   \o EditLine(obj["name"])
                   \o <<IND2, "set", SP, "type", SP, "ipmask", NL>>
                   \o <<IND2, "set", SP, "subnet", SP, obj["ipv4-address"], SLASH, "32", NL>>
                   \o CommentLine(obj) \o Closer)

convert_host_object(obj, existing_objects) ==
    IF ~Truthy(obj, "name") \/ ~Truthy(obj, "ipv4-address") THEN NotConvertible
    ELSE LET name == obj["name"]
             ipv4_address == obj["ipv4-address"]
             is_duplicate ==
                 /\ name \in DOMAIN existing_objects
                 /\ existing_objects[name].type = "ipmask"
                 /\ "subnet" \in DOMAIN existing_objects[name].ip_info
                 /\ existing_objects[name].ip_info["subnet"] = ipv4_address \o SLASH \o "32"
         IN IF is_duplicate THEN Duplicate
            ELSE Converted(<<"config", SP, "firewall", SP, "address", NL>>
                           \o EditLine(name)
                           \o <<IND2, "set", SP, "type", SP, "ipmask", NL>>
                           \o <<IND2, "set", SP, "subnet", SP, ipv4_address, SLASH, "32", NL>>
                           \o CommentLine(obj) \o Closer)

convert_network_object(obj, existing_objects) ==
    IF ~Truthy(obj, "name") \/ ~Truthy(obj, "subnet4")
       \/ "mask-length4" \notin DOMAIN obj
    THEN NotConvertible
    ELSE LET name == obj["name"]
             subnet4 == obj["subnet4"]
             \* f"{mask_length4}": the decimal digits of the integer
             mask_length4 == ToString(obj["mask-length4"])
             is_duplicate ==
                 /\ name \in DOMAIN existing_objects
                 /\ existing_objects[name].type = "ipmask"
                 /\ "subnet" \in DOMAIN existing_objects[name].ip_info
                 /\ existing_objects[name].ip_info["subnet"] = subnet4 \o SLASH \o mask_length4
         IN IF is_duplicate THEN Duplicate
            ELSE Converted(<<"config", SP, "firewall", SP, "address", NL>>
                           \o EditLine(name)
                           \o <<IND2, "set", SP, "type", SP, "ipmask", NL>>
                           \o <<IND2, "set", SP, "subnet", SP, subnet4, SLASH, mask_length4, NL>>
                           \o CommentLine(obj) \o Closer)

convert_range_object(obj, existing_objects) ==
    IF ~Truthy(obj, "name") \/ ~Truthy(obj, "ipv4-address-first")
       \/ ~Truthy(obj, "ipv4-address-last")
    THEN NotConvertible
    ELSE LET name == obj["name"]
             ipv4_address_first == obj["ipv4-address-first"]
             ipv4_address_last == obj["ipv4-address-last"]
             is_duplicate ==
                 /\ name \in DOMAIN existing_objects
                 /\ existing_objects[name].type = "iprange"
                 /\ "start-ip" \in DOMAIN existing_objects[name].ip_info
                 /\ "end-ip" \in DOMAIN existing_objects[name].ip_info
                 /\ existing_objects[name].ip_info["start-ip"] = ipv4_address_first
                 /\ existing_objects[name].ip_info["end-ip"] = ipv4_address_last
         IN IF is_duplicate THEN Duplicate
            ELSE Converted(<<"config", SP, "firewall", SP, "address", NL>>
                           \o EditLine(name)
                           \o <<IND2, "set", SP, "type", SP, "iprange", NL>>
                           \o <<IND2, "set", SP, "start-ip", SP, ipv4_address_first, NL>>
                           \o <<IND2, "set", SP, "end-ip", SP, ipv4_address_last, NL>>
                           \o CommentLine(obj) \o Closer)

\* a resolution that gives up at the first member it does not find
RECURSIVE MemberNamesUntilUnknown(_, _)
MemberNamesUntilUnknown(members, objects_by_uid) ==
    IF members = <<>> THEN <<>>
    ELSE LET member_uid == Head(members)
         IN IF member_uid \in DOMAIN objects_by_uid
               /\ Truthy(objects_by_uid[member_uid], "name")
            THEN <<objects_by_uid[member_uid]["name"]>>
                 \o MemberNamesUntilUnknown(Tail(members), objects_by_uid)
            ELSE <<>>

\* lines 201-208: the names of the members found in objects_by_uid, in order
RECURSIVE MemberNames(_, _)
MemberNames(members, objects_by_uid) ==
    IF members = <<>> THEN <<>>
    ELSE LET member_uid == Head(members)
             rest == MemberNames(Tail(members), objects_by_uid)
         IN IF member_uid \in DOMAIN objects_by_uid
               /\ Truthy(objects_by_uid[member_uid], "name")
            THEN <<objects_by_uid[member_uid]["name"]>> \o rest
            ELSE rest

\* ' '.join(f'"{name}"' for name in member_names)
RECURSIVE MemberStr(_)
MemberStr(member_names) ==
    IF member_names = <<>> THEN <<>>
    ELSE <<Q, Head(member_names), Q>>
         \o (IF Tail(member_names) = <<>> THEN <<>> ELSE <<SP>>)
         \o MemberStr(Tail(member_names))

\* a group that takes an existing entry for a duplicate only when that entry
\* is no address
convert_group_object_by_kind(obj, objects_by_uid, existing_objects) ==
    IF ~Truthy(obj, "name") \/ ~TruthyList(obj, "members") THEN NotConvertible
    ELSE IF obj["name"] \in DOMAIN existing_objects
            /\ existing_objects[obj["name"]].type \notin {"ipmask", "iprange"}
    THEN Duplicate
    ELSE LET member_names == MemberNames(obj["members"], objects_by_uid)
         IN Converted(<<"config", SP, "firewall", SP, "addrgrp", NL>>
                      \o EditLine(obj["name"])
                      \o (IF member_names # <<>>
                          THEN <<IND2, "set", SP, "member", SP>>
                               \o MemberStr(member_names) \o <<NL>>
                          ELSE <<>>)
                      \o CommentLine(obj) \o Closer)

convert_group_object(obj, objects_by_uid, existing_objects) ==
    IF ~Truthy(obj, "name") \/ ~TruthyList(obj, "members") THEN NotConvertible
    ELSE IF obj["name"] \in DOMAIN existing_objects THEN Duplicate
    ELSE LET member_names == MemberNames(obj["members"], objects_by_uid)
         IN Converted(<<"config", SP, "firewall", SP, "addrgrp", NL>>
                      \o EditLine(obj["name"])
                      \o (IF member_names # <<>>
                          THEN <<IND2, "set", SP, "member", SP>>
                               \o MemberStr(member_names) \o <<NL>>
                          ELSE <<>>)
                      \o CommentLine(obj) \o Closer)

convert_service_tcp_object(obj, existing_objects) ==
    IF ~Truthy(obj, "name") \/ ~Truthy(obj, "port") THEN NotConvertible
    ELSE IF obj["name"] \in DOMAIN existing_objects THEN Duplicate
    ELSE Converted(<<"config", SP, "firewall", SP, "service", SP, "custom", NL>>
                   \o EditLine(obj["name"])
                   \o <<IND2, "set", SP, "tcp-portrange", SP, obj["port"], NL>>
                   \o <<IND2, "set", SP, "protocol", SP, "TCP/UDP/SCTP", NL>>
                   \o CommentLine(obj) \o Closer)

\* a UDP service that looks its name up before it validates its fields
convert_service_udp_object_lookup_first(obj, existing_objects) ==
    IF Truthy(obj, "name") /\ obj["name"] \in DOMAIN existing_objects THEN Duplicate
    ELSE IF ~Truthy(obj, "name") \/ ~Truthy(obj, "port") THEN NotConvertible
    ELSE Converted(<<"config", SP, "firewall", SP, "service", SP, "custom", NL>>
                   \o EditLine(obj["name"])
                   \o <<IND2, "set", SP, "udp-portrange", SP, obj["port"], NL>>
                   \o <<IND2, "set", SP, "protocol", SP, "TCP/UDP/SCTP", NL>>
                   \o CommentLine(obj) \o Closer)

convert_service_udp_object(obj, existing_objects) ==
    IF ~Truthy(obj, "name") \/ ~Truthy(obj, "port") THEN NotConvertible
    ELSE IF obj["name"] \in DOMAIN existing_objects THEN Duplicate
    ELSE Converted(<<"config", SP, "firewall", SP, "service", SP, "custom", NL>>
                   \o EditLine(obj["name"])
                   \o <<IND2, "set", SP, "udp-portrange", SP, obj["port"], NL>>
                   \o <<IND2, "set", SP, "protocol", SP, "TCP/UDP/SCTP", NL>>
                   \o CommentLine(obj) \o Closer)

\* obj.get('type')
TypeOf(obj) == IF "type" \in DOMAIN obj THEN obj["type"] ELSE ""

\* lines 313-327: the dispatch on the type; any other type is skipped
convert_simple_object(obj, existing_objects) ==
    IF TypeOf(obj) = "host" THEN convert_host_object(obj, existing_objects)
    ELSE IF TypeOf(obj) = "network" THEN convert_network_object(obj, existing_objects)
    ELSE IF TypeOf(obj) = "address-range" THEN convert_range_object(obj, existing_objects)
    ELSE IF TypeOf(obj) = "service-tcp" THEN convert_service_tcp_object(obj, existing_objects)
    ELSE IF TypeOf(obj) = "service-udp" THEN convert_service_udp_object(obj, existing_objects)
    ELSE NotConvertible

(***************************************************************************)
(* convert_objects and main                                                *)
(***************************************************************************)
\* line 297: {obj.get('uid'): obj for obj in objects if 'uid' in obj}
RECURSIVE ObjectsByUid(_, _)
ObjectsByUid(objs, d) ==
    IF objs = <<>> THEN d
    ELSE ObjectsByUid(Tail(objs),
                      IF "uid" \in DOMAIN Head(objs)
                      THEN DictSet(d, Head(objs)["uid"], Head(objs))
                      ELSE d)

IsGroup(obj) == TypeOf(obj) = "group"
NotGroup(obj) == ~IsGroup(obj)

\* a partition that puts each object in front of the ones before it
RECURSIVE SimpleObjectsReversed(_)
SimpleObjectsReversed(objs) ==
    IF objs = <<>> THEN <<>>
    ELSE SimpleObjectsReversed(Tail(objs))
         \o (IF NotGroup(Head(objs)) THEN <<Head(objs)>> ELSE <<>>)

\* lines 301-309: the objects that are no group, in input order
SimpleObjects(objs) == SelectSeq(objs, NotGroup)

\* lines 301-309: the group objects, in input order
GroupObjects(objs) == SelectSeq(objs, IsGroup)

\* lines 329-332, 338-341: what one conversion adds to the commands and the count
AddCommand(commands, result) ==
    IF ~result.is_duplicate /\ result.cmd # <<>>
    THEN Append(commands, result.cmd) ELSE commands

\* a count that takes every result without a command for a duplicate
AddSkippedNoCommand(count, result) ==
    IF result.cmd = <<>> THEN count + 1 ELSE count

AddSkipped(count, result) ==
    IF result.is_duplicate THEN count + 1 ELSE count

\* a conversion that records the name of the block it emitted
ExistingAfterRecording(existing, obj, result) ==
    IF result.cmd # <<>>
    THEN DictSet(existing, obj["name"], [type |-> "unknown", ip_info |-> EmptyDict])
    ELSE existing

\* lines 82-91: the converters read existing_objects and never write it
ExistingAfter(existing, obj, result) == existing

\* lines 364-366: f.write(cmd + '\n\n') for each command
RECURSIVE WriteCommands(_)
WriteCommands(commands) ==
    IF commands = <<>> THEN <<>>
    ELSE Head(commands) \o <<NL, NL>> \o WriteCommands(Tail(commands))

\* lines 368-369
TotalObjects(num_converted, skipped) == num_converted + skipped

VARIABLES
    objects,             \* checkpoint_data, the list of the input file
    existing_file,       \* the text of 'Existing objects.txt', or NoFile
    existing_sections,   \* the sections existing_file was written from (input, not read by the program)
    existing_objects,    \* main: existing_objects
    objects_by_uid,      \* convert_objects: objects_by_uid
    simple_objects,      \* convert_objects: simple_objects
    group_objects,       \* convert_objects: group_objects
    fortigate_commands,  \* convert_objects: fortigate_commands
    skipped_count,       \* convert_objects: skipped_count
    i,                   \* the position of the loop over simple_objects
    j,                   \* the position of the loop over group_objects
    output_file,         \* the text of 'checkpoint-to-fortigate.txt'
    stdout,              \* the counts main prints
    pc                   \* where main stands

vars == <<objects, existing_file, existing_sections, existing_objects,
          objects_by_uid, simple_objects, group_objects, fortigate_commands,
          skipped_count, i, j, output_file, stdout, pc>>

\* main, lines 353-358: load the existing configuration and print its size
LoadExisting ==
    /\ pc = "load"
    /\ existing_objects' = load_existing_fortigate_config(existing_file)
    /\ stdout' = Append(stdout, [line |-> "found",
                                 n |-> Cardinality(DOMAIN existing_objects')])
    /\ pc' = "start"
    /\ UNCHANGED <<objects, existing_file, existing_sections, objects_by_uid,
                   simple_objects, group_objects, fortigate_commands,
                   skipped_count, i, j, output_file>>

\* convert_objects, lines 282-309: nothing to do for no objects; otherwise
\* the index by uid and the two partitions
StartConvert ==
    /\ pc = "start"
    /\ fortigate_commands' = <<>>
    /\ skipped_count' = 0
    /\ IF objects = <<>>
       THEN /\ pc' = "write"
            /\ UNCHANGED <<objects_by_uid, simple_objects, group_objects>>
       ELSE /\ objects_by_uid' = ObjectsByUid(objects, EmptyDict)
            /\ simple_objects' = SimpleObjects(objects)
            /\ group_objects' = GroupObjects(objects)
            /\ pc' = "convert"
    /\ i' = 1
    /\ j' = 1
    /\ UNCHANGED <<objects, existing_file, existing_sections, existing_objects,
                   output_file, stdout>>

\* convert_objects, lines 312-332: one turn of the loop over simple_objects
ProcessSimple ==
    /\ pc = "convert"
    /\ i <= Len(simple_objects)
    /\ LET obj == simple_objects[i]
           result == convert_simple_object(obj, existing_objects)
       IN /\ fortigate_commands' = AddCommand(fortigate_commands, result)
          /\ skipped_count' = AddSkipped(skipped_count, result)
          /\ existing_objects' = ExistingAfter(existing_objects, obj, result)
    /\ i' = i + 1
    /\ UNCHANGED <<objects, existing_file, existing_sections, objects_by_uid,
                   simple_objects, group_objects, j, output_file, stdout, pc>>

\* convert_objects, lines 335-341: one turn of the loop over group_objects,
\* which starts when the loop over simple_objects has ended
ProcessGroup ==
    /\ pc = "convert"
    /\ i > Len(simple_objects)
    /\ j <= Len(group_objects)
    /\ LET obj == group_objects[j]
           result == convert_group_object(obj, objects_by_uid, existing_objects)
       IN /\ fortigate_commands' = AddCommand(fortigate_commands, result)
          /\ skipped_count' = AddSkipped(skipped_count, result)
          /\ existing_objects' = ExistingAfter(existing_objects, obj, result)
    /\ j' = j + 1
    /\ UNCHANGED <<objects, existing_file, existing_sections, objects_by_uid,
                   simple_objects, group_objects, i, output_file, stdout, pc>>

\* convert_objects, line 343
Return ==
    /\ pc = "convert"
    /\ i > Len(simple_objects)
    /\ j > Len(group_objects)
    /\ pc' = "write"
    /\ UNCHANGED <<objects, existing_file, existing_sections, existing_objects,
                   objects_by_uid, simple_objects, group_objects,
                   fortigate_commands, skipped_count, i, j, output_file, stdout>>

\* main, lines 363-374: write the commands and print the summary
WriteOutput ==
    /\ pc = "write"
    /\ output_file' = WriteCommands(fortigate_commands)
    /\ stdout' = Append(stdout,
                        [line |-> "processed",
                         total |-> TotalObjects(Len(fortigate_commands), skipped_count),
                         converted |-> Len(fortigate_commands),
                         skipped |-> skipped_count])
    /\ pc' = "done"
    /\ UNCHANGED <<objects, existing_file, existing_sections, existing_objects,
                   objects_by_uid, simple_objects, group_objects,
                   fortigate_commands, skipped_count, i, j>>

\* the operator runs the program again on the same input, with the script it
\* wrote as the existing configuration
Rerun ==
    /\ pc = "done"
    /\ Len(stdout) < 2 * MaxRuns
    /\ existing_file' = output_file
    /\ existing_sections' = <<>>
    /\ existing_objects' = EmptyDict
    /\ objects_by_uid' = EmptyDict
    /\ simple_objects' = <<>>
    /\ group_objects' = <<>>
    /\ fortigate_commands' = <<>>
    /\ skipped_count' = 0
    /\ i' = 1
    /\ j' = 1
    /\ pc' = "load"
    /\ UNCHANGED <<objects, output_file, stdout>>

Next ==
    \/ LoadExisting
    \/ StartConvert
    \/ ProcessSimple
    \/ ProcessGroup
    \/ Return
    \/ WriteOutput

NextRoundTrip == Next \/ Rerun

(***************************************************************************)
(* Inputs                                                                  *)
(***************************************************************************)
\* obj without key k
Without(obj, k) == [x \in DOMAIN obj \ {k} |-> obj[x]]

HostObj(name, ip) == [type |-> "host", name |-> name] @@ ("ipv4-address" :> ip)
NetworkObj(name, net, mask) ==
    [type |-> "network", name |-> name, subnet4 |-> net] @@ ("mask-length4" :> mask)
RangeObj(name, first, last) ==
    [type |-> "address-range", name |-> name]
    @@ ("ipv4-address-first" :> first) @@ ("ipv4-address-last" :> last)
TcpObj(name, port) == [type |-> "service-tcp", name |-> name, port |-> port]
UdpObj(name, port) == [type |-> "service-udp", name |-> name, port |-> port]
GroupObj(name, members) == [type |-> "group", name |-> name, members |-> members]
WithUid(obj, uid) == obj @@ [uid |-> uid]
WithComment(obj, c) == obj @@ [comments |-> c]

\* the objects of the runs that check the pipeline as a whole
PipelineObjects ==
    { WithUid(HostObj("A", "10.0.0.1"), "u1"),
      HostObj("A", "10.0.0.2"),
      WithUid(Without(HostObj("A", "10.0.0.1"), "name"), "u3"),
      WithUid(TcpObj("B", "80"), "u2"),
      WithUid(NetworkObj("B", "10.1.0.0", 24), "u1"),
      WithUid([type |-> "access-role", name |-> "B"], "u4"),
      WithUid(GroupObj("G", <<"u2", "u1">>), "u5"),
      GroupObj("G", <<"u9", "u4", "u3">>),
      GroupObj("A", <<"u9">>),
      GroupObj("B", <<>>) }

\* the objects of the runs that check one conversion at a time
ConversionObjects ==
    { HostObj("A", "10.0.0.1"), HostObj("B", "10.0.0.1"),
      WithComment(HostObj("A", "10.0.0.2"), "c1"),
      Without(HostObj("A", "10.0.0.1"), "ipv4-address"),
      Without(HostObj("A", "10.0.0.1"), "name"),
      HostObj("", "10.0.0.1"),
      NetworkObj("A", "10.1.0.0", 24), NetworkObj("A", "10.1.0.0", 0),
      Without(NetworkObj("A", "10.1.0.0", 24), "mask-length4"),
      Without(NetworkObj("A", "10.1.0.0", 24), "subnet4"),
      RangeObj("A", "10.0.0.1", "10.0.0.2"), RangeObj("B", "10.0.0.1", "10.0.0.2"),
      Without(RangeObj("A", "10.0.0.1", "10.0.0.2"), "ipv4-address-first"),
      Without(RangeObj("A", "10.0.0.1", "10.0.0.2"), "ipv4-address-last"),
      TcpObj("A", "80"), TcpObj("B", "80"), Without(TcpObj("A", "80"), "port"),
      UdpObj("A", "53"), WithComment(UdpObj("B", "53"), "next"),
      Without(UdpObj("A", "53"), "port"),
      GroupObj("A", <<"u1">>), GroupObj("B", <<"u1">>), GroupObj("A", <<>>),
      Without(GroupObj("A", <<"u1">>), "members"),
      Without(GroupObj("A", <<"u1">>), "name"),
      [type |-> "access-role", name |-> "A"] }

\* the sequences over S of length at most n
SeqsUpTo(S, n) == UNION {[1..k -> S] : k \in 0..n}

\* A section of an existing configuration: its name, the token of its type
\* line, the address and prefix of its subnet line, the addresses of its
\* start-ip and end-ip lines; "" or <<>> for a line that is not there.
Section(name, type, subnet, first, last) ==
    [name |-> name, type |-> type, subnet |-> subnet, first |-> first, last |-> last]

\* the section bodies: well formed, partially matched, of another kind
SectionsOf(name) ==
    { Section(name, "ipmask", <<"10.0.0.1", "32">>, "", ""),
      Section(name, "ipmask", <<"10.0.0.2", "32">>, "", ""),
      Section(name, "ipmask", <<"10.1.0.0", "24">>, "", ""),
      Section(name, "ipmask", <<"10.1.0.0", "0">>, "", ""),
      Section(name, "ipmask", <<>>, "", ""),
      Section(name, "ipmask", <<"any", "32">>, "", ""),
      Section(name, "iprange", <<>>, "10.0.0.1", "10.0.0.2"),
      Section(name, "iprange", <<>>, "10.0.0.1", "10.0.0.1"),
      Section(name, "iprange", <<>>, "10.0.0.1", ""),
      Section(name, "iprange", <<>>, "any", "10.0.0.2"),
      Section(name, "", <<>>, "", ""),
      Section(name, "", <<"10.0.0.1", "32">>, "", ""),
      Section(name, "fqdn", <<>>, "", "") }

\* the text of a section, laid out as the converters lay a block out
SectionText(sec) ==
    <<"config", SP, "firewall", SP, "address", NL>> \o EditLine(sec.name)
    \o (IF sec.type # "" THEN <<IND2, "set", SP, "type", SP, sec.type, NL>> ELSE <<>>)
    \o (IF sec.subnet # <<>>
        THEN <<IND2, "set", SP, "subnet", SP, sec.subnet[1], SLASH, sec.subnet[2], NL>>
        ELSE <<>>)
    \o (IF sec.first # "" THEN <<IND2, "set", SP, "start-ip", SP, sec.first, NL>> ELSE <<>>)
    \o (IF sec.last # "" THEN <<IND2, "set", SP, "end-ip", SP, sec.last, NL>> ELSE <<>>)
    \o Closer \o <<NL, NL>>

RECURSIVE ConfigText(_)
ConfigText(secs) ==
    IF secs = <<>> THEN <<>> ELSE SectionText(Head(secs)) \o ConfigText(Tail(secs))

\* the state main starts in, for the given input files
Start(objs, file, secs) ==
    /\ objects = objs
    /\ existing_file = file
    /\ existing_sections = secs
    /\ existing_objects = EmptyDict
    /\ objects_by_uid = EmptyDict
    /\ simple_objects = <<>>
    /\ group_objects = <<>>
    /\ fortigate_commands = <<>>
    /\ skipped_count = 0
    /\ i = 1
    /\ j = 1
    /\ output_file = <<>>
    /\ stdout = <<>>
    /\ pc = "load"

\* the sections of the existing files of whole runs
PipelineSections ==
    { Section("A", "ipmask", <<"10.0.0.1", "32">>, "", ""),
      Section("A", "ipmask", <<"10.0.0.2", "32">>, "", ""),
      Section("B", "ipmask", <<"10.1.0.0", "24">>, "", ""),
      Section("B", "fqdn", <<>>, "", ""),
      Section("G", "", <<>>, "", "") }

\* whole runs: up to MaxObjs objects, no existing file or one of one section
Init ==
    \E objs \in SeqsUpTo(PipelineObjects, MaxObjs) :
        \/ Start(objs, NoFile, <<>>)
        \/ \E sec \in PipelineSections : Start(objs, ConfigText(<<sec>>), <<sec>>)

Spec == Init /\ [][Next]_vars

\* single conversions: up to MaxConvObjs objects of every kind, complete or
\* not, against no file, an empty file and every section body under a name
InitConversion ==
    \E objs \in SeqsUpTo(ConversionObjects, MaxConvObjs) :
        \/ Start(objs, NoFile, <<>>)
        \/ Start(objs, <<>>, <<>>)
        \/ \E sec \in SectionsOf("A") \cup SectionsOf("B") :
               Start(objs, ConfigText(<<sec>>), <<sec>>)

SpecConversion == InitConversion /\ [][Next]_vars

\* the loader: up to MaxSections sections under two names
InitLoad ==
    \E secs \in SeqsUpTo(SectionsOf("A") \cup SectionsOf("B"), MaxSections) :
        Start(<<HostObj("A", "10.0.0.1"), GroupObj("B", <<"u1">>)>>,
              ConfigText(secs), secs)

SpecLoad == InitLoad /\ [][Next]_vars

\* round trips: a first run with no existing file, then runs on its output
InitRoundTrip ==
    \E objs \in SeqsUpTo(PipelineObjects, MaxObjs) : Start(objs, NoFile, <<>>)

SpecRoundTrip == InitRoundTrip /\ [][NextRoundTrip]_vars

(***************************************************************************)
(* Vocabulary of the properties                                            *)
(***************************************************************************)
AddressKinds == {"host", "network", "address-range"}
NameOnlyKinds == {"service-tcp", "service-udp", "group"}
SupportedKinds == AddressKinds \cup NameOnlyKinds

\* the object holds key k with a value that is not empty
Present(obj, k) == k \in DOMAIN obj /\ obj[k] \notin {"", <<>>}

\* the object has every field its kind requires (a prefix length of 0 is a
\* value; an empty member sequence is none)
Complete(obj) ==
    /\ Present(obj, "name")
    /\ TypeOf(obj) = "host" => Present(obj, "ipv4-address")
    /\ TypeOf(obj) = "network" =>
           Present(obj, "subnet4") /\ "mask-length4" \in DOMAIN obj
    /\ TypeOf(obj) = "address-range" =>
           Present(obj, "ipv4-address-first") /\ Present(obj, "ipv4-address-last")
    /\ TypeOf(obj) \in {"service-tcp", "service-udp"} => Present(obj, "port")
    /\ TypeOf(obj) = "group" => "members" \in DOMAIN obj /\ obj["members"] # <<>>

\* the decimal text of a prefix length
PrefixText == (0 :> "0") @@ (24 :> "24")

\* the descriptor computed from a complete address object
CandidateDescriptor(obj) ==
    IF TypeOf(obj) = "host"
    THEN [type |-> "ipmask",
          ip_info |-> [subnet |-> obj["ipv4-address"] \o "/32"]]
    ELSE IF TypeOf(obj) = "network"
    THEN [type |-> "ipmask",
          ip_info |-> [subnet |-> obj["subnet4"] \o "/" \o PrefixText[obj["mask-length4"]]]]
    ELSE [type |-> "iprange",
          ip_info |-> ("start-ip" :> obj["ipv4-address-first"])
                      @@ ("end-ip" :> obj["ipv4-address-last"])]

\* the name between the quotes of a block's edit line
BlockName(block) == block[IndexFrom(block, 1, "edit") + 3]

\* this step counts one duplicate and adds no block
StepIsDuplicate ==
    /\ skipped_count' = skipped_count + 1
    /\ fortigate_commands' = fortigate_commands

\* this step appends one block, under the given name, and counts nothing
StepIsConverted(name) ==
    /\ skipped_count' = skipped_count
    /\ Len(fortigate_commands') = Len(fortigate_commands) + 1
    /\ SubSeq(fortigate_commands', 1, Len(fortigate_commands)) = fortigate_commands
    /\ BlockName(fortigate_commands'[Len(fortigate_commands')]) = name

\* this step adds no block and counts nothing
StepIsSkipped ==
    /\ skipped_count' = skipped_count
    /\ fortigate_commands' = fortigate_commands

\* the loop over simple_objects is at an object / the loop over group_objects is
AtSimple == pc = "convert" /\ i <= Len(simple_objects)
AtGroup == pc = "convert" /\ i > Len(simple_objects) /\ j <= Len(group_objects)

(***************************************************************************)
(* C1: a complete host, network or address range is a duplicate exactly    *)
(* when the existing index holds, under its name, a descriptor equal field *)
(* for field to the one computed from it; in every other case the step     *)
(* appends a converted block.                                              *)
(***************************************************************************)
C1_AddressDuplicateIffSameDescriptor ==
    [][ (AtSimple /\ TypeOf(simple_objects[i]) \in AddressKinds
                  /\ Complete(simple_objects[i]))
        => LET obj == simple_objects[i]
           IN IF /\ obj["name"] \in DOMAIN existing_objects
                 /\ existing_objects[obj["name"]] = CandidateDescriptor(obj)
              THEN StepIsDuplicate
              ELSE StepIsConverted(obj["name"]) ]_vars

\* a complete address object was processed against an entry of its name: one
\* run where the descriptors are equal and the object was counted a duplicate
C1_Witness ==
    /\ pc = "done"
    /\ Len(objects) = 1
    /\ TypeOf(objects[1]) = "network"
    /\ Complete(objects[1])
    /\ objects[1]["mask-length4"] = 0
    /\ objects[1]["name"] \in DOMAIN existing_objects
    /\ existing_objects[objects[1]["name"]] = CandidateDescriptor(objects[1])
    /\ skipped_count = 1
    /\ fortigate_commands = <<>>

(***************************************************************************)
(* C2: a complete TCP service, UDP service or group is a duplicate         *)
(* whenever the existing index holds any entry under its name, whatever    *)
(* the entry's kind and facts, and is converted when the name is absent.   *)
(***************************************************************************)
C2_NameOnlyDuplicate ==
    [][ /\ (AtSimple /\ TypeOf(simple_objects[i]) \in NameOnlyKinds
                     /\ Complete(simple_objects[i]))
           => IF simple_objects[i]["name"] \in DOMAIN existing_objects
              THEN StepIsDuplicate
              ELSE StepIsConverted(simple_objects[i]["name"])
        /\ (AtGroup /\ Complete(group_objects[j]))
           => IF group_objects[j]["name"] \in DOMAIN existing_objects
              THEN StepIsDuplicate
              ELSE StepIsConverted(group_objects[j]["name"]) ]_vars

\* a complete group was counted a duplicate of an existing address entry
C2_Witness ==
    /\ pc = "done"
    /\ Len(objects) = 1
    /\ TypeOf(objects[1]) = "group"
    /\ Complete(objects[1])
    /\ objects[1]["name"] \in DOMAIN existing_objects
    /\ existing_objects[objects[1]["name"]].type = "iprange"
    /\ DOMAIN existing_objects[objects[1]["name"]].ip_info = {"start-ip", "end-ip"}
    /\ skipped_count = 1
    /\ fortigate_commands = <<>>

(***************************************************************************)
(* C3: an object of a supported kind that misses a required field adds no  *)
(* block and no duplicate count, also when the existing index holds an     *)
(* entry under its name; a complete one adds exactly one of the two.       *)
(***************************************************************************)
C3_IncompleteAddsNothing ==
    [][ /\ (AtSimple /\ TypeOf(simple_objects[i]) \in SupportedKinds)
           => IF Complete(simple_objects[i])
              THEN Len(fortigate_commands') + skipped_count'
                       = Len(fortigate_commands) + skipped_count + 1
              ELSE StepIsSkipped
        /\ AtGroup
           => IF Complete(group_objects[j])
              THEN Len(fortigate_commands') + skipped_count'
                       = Len(fortigate_commands) + skipped_count + 1
              ELSE StepIsSkipped ]_vars

\* an incomplete object whose name the existing index holds was processed and
\* left the commands and the count alone
C3_Witness ==
    /\ pc = "done"
    /\ Len(objects) = 1
    /\ TypeOf(objects[1]) = "service-udp"
    /\ ~Complete(objects[1])
    /\ Present(objects[1], "name")
    /\ objects[1]["name"] \in DOMAIN existing_objects
    /\ skipped_count = 0
    /\ fortigate_commands = <<>>

(***************************************************************************)
(* C4: a complete group whose name is not in the existing index emits, as  *)
(* its members, the names of those member identifiers that the index by    *)
(* uid of the whole input holds with a non-empty name, in the order of the *)
(* member list; the others are dropped, and a group with none left still   *)
(* yields a block, without a member line.                                  *)
(***************************************************************************)
\* the position of the last object of objs that carries the uid, 0 when none does
LastWithUid(objs, uid) ==
    LET at == {k \in 1..Len(objs) : "uid" \in DOMAIN objs[k] /\ objs[k]["uid"] = uid}
    IN IF at = {} THEN 0 ELSE CHOOSE k \in at : \A m \in at : m <= k

\* the member identifier is carried by an object of the input
InIdentifierIndex(uid) == LastWithUid(objects, uid) # 0

\* the object the identifier stands for has a name
ResolvesToName(uid) ==
    InIdentifierIndex(uid) /\ Present(objects[LastWithUid(objects, uid)], "name")

\* the names a block lists on its member line, <<>> when it has none
IsNameAtom(a) == a \notin {Q, SP}
BlockMembers(block) ==
    LET p == IndexFrom(block, 1, "member")
    IN IF p = 0 THEN <<>>
       ELSE SelectSeq(SubSeq(block, p + 1, IndexFrom(block, p, NL) - 1), IsNameAtom)

\* the names the members stand for, in the order of the member list
RECURSIVE ResolvedNames(_)
ResolvedNames(members) ==
    IF members = <<>> THEN <<>>
    ELSE (IF ResolvesToName(Head(members))
          THEN <<objects[LastWithUid(objects, Head(members))]["name"]>> ELSE <<>>)
         \o ResolvedNames(Tail(members))

\* a complete group whose name the existing index does not hold is at turn
AtNewGroup ==
    /\ AtGroup
    /\ Complete(group_objects[j])
    /\ group_objects[j]["name"] \notin DOMAIN existing_objects

C4_GroupMembersResolved ==
    [][ AtNewGroup
        => /\ StepIsConverted(group_objects[j]["name"])
           /\ BlockMembers(fortigate_commands'[Len(fortigate_commands')])
                  = ResolvedNames(group_objects[j]["members"])
           /\ (ResolvedNames(group_objects[j]["members"]) = <<>>
               => IndexFrom(fortigate_commands'[Len(fortigate_commands')], 1, "member") = 0)
      ]_vars

\* the claim as stated: every member identifier the index holds is listed
C4_EveryIndexedMemberListed ==
    [][ AtNewGroup
        => Len(BlockMembers(fortigate_commands'[Len(fortigate_commands')]))
               = Cardinality({k \in 1..Len(group_objects[j]["members"]) :
                                  InIdentifierIndex(group_objects[j]["members"][k])})
      ]_vars

\* a group that stands before its members was converted, with two members
\* listed in the order of its member list, which is not that of the input
C4_Witness ==
    /\ pc = "done"
    /\ Len(objects) = 3
    /\ IsGroup(objects[1])
    /\ objects[1]["members"] = <<"u2", "u1">>
    /\ Present(objects[2], "uid") /\ objects[2]["uid"] = "u1"
    /\ Present(objects[3], "uid") /\ objects[3]["uid"] = "u2"
    /\ Len(fortigate_commands) = 3
    /\ BlockMembers(fortigate_commands[3]) = <<"B", "A">>

(***************************************************************************)
(* C5: the blocks of the objects that are no group precede the blocks of   *)
(* the groups, each partition keeps the order of the input, and no group   *)
(* is converted before the last object that is no group was processed.     *)
(***************************************************************************)
\* the objects of objs that satisfy (keep = TRUE) or fail (keep = FALSE) IsGroup,
\* in the order of objs
RECURSIVE InInputOrder(_, _)
InInputOrder(objs, keep) ==
    IF objs = <<>> THEN <<>>
    ELSE (IF IsGroup(Head(objs)) = keep THEN <<Head(objs)>> ELSE <<>>)
         \o InInputOrder(Tail(objs), keep)

\* the blocks of the objects of objs that convert, in the order of objs
RECURSIVE BlocksOf(_)
BlocksOf(objs) ==
    IF objs = <<>> THEN <<>>
    ELSE LET result == IF IsGroup(Head(objs))
                       THEN convert_group_object(Head(objs), objects_by_uid, existing_objects)
                       ELSE convert_simple_object(Head(objs), existing_objects)
         IN (IF result.cmd # <<>> THEN <<result.cmd>> ELSE <<>>) \o BlocksOf(Tail(objs))

IsGroupBlock(block) == block[5] = "addrgrp"

C5_GroupsAfterSimpleInInputOrder ==
    pc \in {"convert", "write", "done"}
    => /\ fortigate_commands
              = BlocksOf(SubSeq(InInputOrder(objects, FALSE), 1, i - 1))
                \o BlocksOf(SubSeq(InInputOrder(objects, TRUE), 1, j - 1))
       /\ j > 1 => i > Len(InInputOrder(objects, FALSE))
       /\ \A a, b \in 1..Len(fortigate_commands) :
              a < b => ~(IsGroupBlock(fortigate_commands[a])
                         /\ ~IsGroupBlock(fortigate_commands[b]))

\* an input that starts with a group, followed by two objects with different
\* blocks: the two blocks come first, in their order, then the group's
C5_Witness ==
    /\ pc = "done"
    /\ Len(objects) = 3
    /\ IsGroup(objects[1]) /\ ~IsGroup(objects[2]) /\ ~IsGroup(objects[3])
    /\ Len(fortigate_commands) = 3
    /\ BlockName(fortigate_commands[1]) = "B"
    /\ BlockName(fortigate_commands[2]) = "A"
    /\ IsGroupBlock(fortigate_commands[3])

(***************************************************************************)
(* C6: the duplicate count plus the number of blocks never exceeds the     *)
(* number of input objects, and at the end of a run equals the number of   *)
(* objects of a supported kind with all required fields: so it equals the  *)
(* number of input objects only when every object is such, and an object   *)
(* of an unsupported kind adds neither a block nor a count.                *)
(***************************************************************************)
Contributing ==
    {k \in 1..Len(objects) :
        TypeOf(objects[k]) \in SupportedKinds /\ Complete(objects[k])}

C6_CountsBoundedByInput ==
    /\ skipped_count + Len(fortigate_commands) <= Len(objects)
    /\ pc \in {"write", "done"}
       => /\ skipped_count + Len(fortigate_commands) = Cardinality(Contributing)
          /\ skipped_count + Len(fortigate_commands) = Len(objects)
             => \A k \in 1..Len(objects) :
                    TypeOf(objects[k]) \in SupportedKinds /\ Complete(objects[k])

\* a finished run over a duplicate, a converted object and an object of an
\* unsupported kind: the sum is 2 of 3
C6_Witness ==
    /\ pc = "done"
    /\ Len(objects) = 3
    /\ \E k \in 1..3 : TypeOf(objects[k]) \notin SupportedKinds
    /\ skipped_count = 1
    /\ Len(fortigate_commands) = 1

(***************************************************************************)
(* C7: a second run on the same input, with the script of a first run that *)
(* had an empty existing index as the existing configuration, converts     *)
(* nothing and counts as many duplicates as the first run converted.       *)
(***************************************************************************)
C7_RoundTripIdempotent ==
    (Len(stdout) = 4 /\ stdout[1].n = 0)
    => /\ stdout[4].converted = 0
       /\ stdout[4].skipped = stdout[2].converted

(***************************************************************************)
(* C8: the total of the summary is the number of objects of the input.     *)
(***************************************************************************)
C8_TotalIsInputSize ==
    \A k \in 1..Len(stdout) :
        stdout[k].line = "processed" => stdout[k].total = Len(objects)

(***************************************************************************)
(* C9: after the load the index holds one entry for each name of a         *)
(* section, that of the last section of the name; a section with no type   *)
(* line gives kind "unknown" and no fact, a section with a type line gives *)
(* the kind of that line and those address facts of the kind that parse,   *)
(* none when they are missing or unparsable; an entry depends on its own   *)
(* section alone.                                                          *)
(***************************************************************************)
SectionNames == {existing_sections[k].name : k \in 1..Len(existing_sections)}

\* the last section of the name
LastSection(name) ==
    existing_sections[CHOOSE k \in 1..Len(existing_sections) :
                          /\ existing_sections[k].name = name
                          /\ \A m \in 1..Len(existing_sections) :
                                 existing_sections[m].name = name => m <= k]

SubnetParses(sec) ==
    sec.subnet # <<>> /\ sec.subnet[1] \in Addrs /\ sec.subnet[2] \in DigitAtoms

\* no type line, or a type line without the parsable address lines of its kind
Malformed(sec) ==
    \/ sec.type = ""
    \/ sec.type = "ipmask" /\ ~SubnetParses(sec)
    \/ sec.type = "iprange" /\ ~(sec.first \in Addrs /\ sec.last \in Addrs)

\* the descriptor of a section, from the section alone
ExpectedDescriptor(sec) ==
    [type |-> IF sec.type = "" THEN "unknown" ELSE sec.type,
     ip_info |->
        IF sec.type = "ipmask"
        THEN IF SubnetParses(sec)
             THEN [subnet |-> sec.subnet[1] \o "/" \o sec.subnet[2]]
             ELSE EmptyDict
        ELSE IF sec.type = "iprange"
        THEN [k \in (IF sec.first \in Addrs THEN {"start-ip"} ELSE {})
                    \cup (IF sec.last \in Addrs THEN {"end-ip"} ELSE {})
              |-> IF k = "start-ip" THEN sec.first ELSE sec.last]
        ELSE EmptyDict]

\* the index of the first run is loaded
Loaded == pc # "load" /\ Len(stdout) <= 2

C9_SectionsLoadedOneByOne ==
    Loaded
    => /\ DOMAIN existing_objects = SectionNames
       /\ \A name \in SectionNames :
              existing_objects[name] = ExpectedDescriptor(LastSection(name))

\* the claim as stated: a malformed or partially matched section gives kind
\* "unknown" and no fact
C9_MalformedIsUnknown ==
    Loaded
    => /\ DOMAIN existing_objects = SectionNames
       /\ \A name \in SectionNames :
              Malformed(LastSection(name))
              => existing_objects[name] = [type |-> "unknown", ip_info |-> EmptyDict]

\* a partially matched section, followed by a well-formed one of another name,
\* was loaded: the first keeps its kind and the one fact that parses, the
\* second has its full descriptor
C9_Witness ==
    /\ Loaded
    /\ Len(existing_sections) = 2
    /\ existing_sections[1] = Section("A", "iprange", <<>>, "any", "10.0.0.2")
    /\ existing_sections[2] = Section("B", "ipmask", <<"10.1.0.0", "24">>, "", "")
    /\ existing_objects["A"] = [type |-> "iprange", ip_info |-> ("end-ip" :> "10.0.0.2")]
    /\ existing_objects["B"] = [type |-> "ipmask", ip_info |-> [subnet |-> "10.1.0.0/24"]]

(***************************************************************************)
(* C10: a run never changes the existing index or the index by uid, and    *)
(* what becomes of an object is decided by the object and the existing     *)
(* index as loaded: an object is counted a duplicate only of an entry of   *)
(* that index, never of a block converted earlier in the run.              *)
(***************************************************************************)
\* what becomes of an object against the index: from the object and the index alone
OutcomeOf(obj, index) ==
    IF TypeOf(obj) \notin SupportedKinds \/ ~Complete(obj) THEN "skipped"
    ELSE IF /\ obj["name"] \in DOMAIN index
            /\ \/ TypeOf(obj) \in NameOnlyKinds
               \/ index[obj["name"]] = CandidateDescriptor(obj)
    THEN "duplicate"
    ELSE "converted"

\* the names of the objects of objs that are converted against the index
RECURSIVE ConvertedNames(_, _)
ConvertedNames(objs, index) ==
    IF objs = <<>> THEN <<>>
    ELSE (IF OutcomeOf(Head(objs), index) = "converted"
          THEN <<Head(objs)["name"]>> ELSE <<>>)
         \o ConvertedNames(Tail(objs), index)

OutcomesAreLocal ==
    pc \in {"write", "done"}
    => LET index == load_existing_fortigate_config(existing_file)
       IN /\ skipped_count
                 = Cardinality({k \in 1..Len(objects) :
                                    OutcomeOf(objects[k], index) = "duplicate"})
          /\ [k \in 1..Len(fortigate_commands) |-> BlockName(fortigate_commands[k])]
                 = ConvertedNames(InInputOrder(objects, FALSE), index)
                   \o ConvertedNames(InInputOrder(objects, TRUE), index)

C10_DecisionsAreLocal ==
    /\ [][ pc = "convert"
           => /\ existing_objects' = existing_objects
              /\ objects_by_uid' = objects_by_uid ]_vars
    /\ []OutcomesAreLocal

\* two objects of one name were both converted: the block of the first did not
\* make the second a duplicate
C10_Witness ==
    /\ pc = "done"
    /\ Len(objects) = 2
    /\ TypeOf(objects[1]) = "host" /\ TypeOf(objects[2]) = "host"
    /\ Complete(objects[1]) /\ objects[2] = objects[1]
    /\ skipped_count = 0
    /\ Len(fortigate_commands) = 2
    /\ fortigate_commands[1] = fortigate_commands[2]

====
